---- MODULE Spec2Model ----
(***************************************************************************)
(* Toronto Taxi Fare Finder (js/taxi_fare_finder.js).                      *)
(*                                                                         *)
(* The page has two click handlers on the "show fare" button:              *)
(* MapDisplay.updateContent (geocode origin, geocode destination, then     *)
(* re-render the map and ask for a route) and FareCalculator.updateContent *)
(* (ask for a route, compute the fare from its distance, show it in the    *)
(* OutputField).  All collaborator calls are asynchronous.                 *)
(*                                                                         *)
(* Every number of the program is a JavaScript Number, i.e. an IEEE-754    *)
(* binary64 value.  Decimal.prototype.valueOf is Math.floor(amount*scale)  *)
(* /scale on such values, and its result depends on the rounding of each   *)
(* operation, so the model carries binary64 values and rounds every        *)
(* operation to nearest-even as the language does.  Mantissas have 53      *)
(* bits; they are kept as little-endian sequences of 15-bit limbs.         *)
(***************************************************************************)
EXTENDS Integers, Sequences, FiniteSets, TLC

(***************************************************************************)
(* Natural numbers of arbitrary size: little-endian limbs in base 2^15,    *)
(* without leading zero limbs; <<>> is zero.  An intermediate result that  *)
(* is used more than once is handed on as the argument of the next         *)
(* operator, which keeps every definition short.                           *)
(***************************************************************************)
LimbBase == 32768

LimbBits == 15

Max(a, b) == IF a >= b THEN a ELSE b

Min(a, b) == IF a <= b THEN a ELSE b

Abs(n) == IF n < 0 THEN -n ELSE n

RECURSIVE BNormLen(_, _)
BNormLen(a, n) ==
    IF n = 0 THEN <<>>
    ELSE IF a[n] = 0 THEN BNormLen(a, n - 1)
    ELSE SubSeq(a, 1, n)

\* a without its leading zero limbs
BNorm(a) == BNormLen(a, Len(a))

RECURSIVE BFromInt(_)
BFromInt(n) ==
    IF n = 0 THEN <<>> ELSE <<n % LimbBase>> \o BFromInt(n \div LimbBase)

RECURSIVE BToIntFrom(_, _)
BToIntFrom(a, i) ==
    IF i > Len(a) THEN 0 ELSE a[i] + LimbBase * BToIntFrom(a, i + 1)

BToInt(a) == BToIntFrom(a, 1)

Limb(a, i) == IF i <= Len(a) THEN a[i] ELSE 0

RECURSIVE BAddFrom(_, _, _, _)
BAddFrom(a, b, i, carry) ==
    IF i > Len(a) /\ i > Len(b)
    THEN (IF carry = 0 THEN <<>> ELSE <<carry>>)
    ELSE LET s == Limb(a, i) + Limb(b, i) + carry
         IN  <<s % LimbBase>> \o BAddFrom(a, b, i + 1, s \div LimbBase)

BAdd(a, b) == BAddFrom(a, b, 1, 0)

RECURSIVE BSubFrom(_, _, _, _)
BSubFrom(a, b, i, borrow) ==
    IF i > Len(a) THEN <<>>
    ELSE LET d == Limb(a, i) - Limb(b, i) - borrow
         IN  IF d < 0 THEN <<d + LimbBase>> \o BSubFrom(a, b, i + 1, 1)
             ELSE <<d>> \o BSubFrom(a, b, i + 1, 0)

\* a - b for a >= b
BSub(a, b) == BNorm(BSubFrom(a, b, 1, 0))

RECURSIVE BCmpFrom(_, _, _)
BCmpFrom(a, b, i) ==
    IF i = 0 THEN 0
    ELSE IF a[i] > b[i] THEN 1
    ELSE IF a[i] < b[i] THEN -1
    ELSE BCmpFrom(a, b, i - 1)

\* -1, 0, 1 as a < b, a = b, a > b
BCmp(a, b) ==
    IF Len(a) > Len(b) THEN 1
    ELSE IF Len(a) < Len(b) THEN -1
    ELSE BCmpFrom(a, b, Len(a))

RECURSIVE BMulSmallFrom(_, _, _, _)
BMulSmallFrom(a, k, i, carry) ==
    IF i > Len(a)
    THEN (IF carry = 0 THEN <<>> ELSE <<carry>>)
    ELSE LET p == a[i] * k + carry
         IN  <<p % LimbBase>> \o BMulSmallFrom(a, k, i + 1, p \div LimbBase)

\* a * k for 0 <= k < 2^15
BMulSmall(a, k) == IF k = 0 THEN <<>> ELSE BMulSmallFrom(a, k, 1, 0)

Zeros(n) == [i \in 1..n |-> 0]

RECURSIVE BMulFrom(_, _, _)
BMulFrom(a, b, j) ==
    IF j > Len(b) THEN <<>>
    ELSE BAdd(BNorm(Zeros(j - 1) \o BMulSmall(a, b[j])), BMulFrom(a, b, j + 1))

BMul(a, b) == IF Len(a) = 0 \/ Len(b) = 0 THEN <<>> ELSE BMulFrom(a, b, 1)

\* a * 2^n
BShl(a, n) ==
    IF Len(a) = 0 THEN a
    ELSE Zeros(n \div LimbBits) \o BMulSmall(a, 2 ^ (n % LimbBits))

RECURSIVE BDivSmallFrom(_, _, _, _)
BDivSmallFrom(a, d, i, rem) ==
    IF i = 0 THEN <<>>
    ELSE LET cur == rem * LimbBase + a[i]
         IN  BDivSmallFrom(a, d, i - 1, cur % d) \o <<cur \div d>>

\* floor(a / d) for 0 < d <= 2^15
BDivSmall(a, d) == BNorm(BDivSmallFrom(a, d, Len(a), 0))

\* floor(a / 2^n)
BShr(a, n) ==
    IF n \div LimbBits >= Len(a) THEN <<>>
    ELSE BDivSmall(SubSeq(a, (n \div LimbBits) + 1, Len(a)), 2 ^ (n % LimbBits))

RECURSIVE IntBitLen(_)
IntBitLen(n) == IF n = 0 THEN 0 ELSE 1 + IntBitLen(n \div 2)

BBitLen(a) ==
    IF Len(a) = 0 THEN 0 ELSE LimbBits * (Len(a) - 1) + IntBitLen(a[Len(a)])

BIsOdd(a) == Len(a) > 0 /\ a[1] % 2 = 1

\* whether b * d <= cur
Fits(cur, b, d) == BCmp(BMulSmall(b, d), cur) <= 0

\* the largest d <= qhat with b * d <= cur
QuotientLimbFrom(cur, b, qhat) ==
    CHOOSE d \in Max(0, qhat - 2)..qhat :
        Fits(cur, b, d) /\ (d = qhat \/ ~Fits(cur, b, d + 1))

\* the largest d with b * d <= cur, for cur < b * 2^15 and a divisor b
\* whose top limb is at least 2^14: the quotient of the two top limbs of
\* cur by the top limb of b exceeds d by at most 2
QuotientLimb(cur, b) ==
    QuotientLimbFrom(cur, b,
        Min(LimbBase - 1,
            (Limb(cur, Len(b) + 1) * LimbBase + Limb(cur, Len(b))) \div b[Len(b)]))

\* one step of the long division: the quotient limb d is put in front of
\* the quotient so far, and the remainder is cur - b * d
BDivModLimb(quotient, cur, b, d) ==
    <<BNorm(<<d>> \o quotient), BSub(cur, BMulSmall(b, d))>>

BDivModStep(quotient, cur, b) ==
    BDivModLimb(quotient, cur, b, QuotientLimb(cur, b))

\* long division, one limb of a at a time from the top: <<quotient,
\* remainder>> of the number made of the limbs i.. of a
RECURSIVE BDivModFrom(_, _, _)
BDivModFrom(a, b, i) ==
    IF i > Len(a) THEN << <<>>, <<>> >>
    ELSE LET prev == BDivModFrom(a, b, i + 1)
         IN  IF prev[2] = <<>> /\ a[i] = 0 THEN <<BNorm(<<0>> \o prev[1]), <<>> >>
             ELSE BDivModStep(prev[1], BNorm(<<a[i]>> \o prev[2]), b)

BDivModUnshift(qr, sh) == <<qr[1], BShr(qr[2], sh)>>

BDivModShifted(a, b, sh) ==
    BDivModUnshift(BDivModFrom(BShl(a, sh), BShl(b, sh), 1), sh)

\* <<floor(a / b), a mod b>> for b # 0; both are scaled first so that the
\* top limb of the divisor has its high bit set
BDivMod(a, b) == BDivModShifted(a, b, LimbBits - IntBitLen(b[Len(b)]))

(***************************************************************************)
(* JavaScript Numbers.  A Number is [sign, man, exp] with value            *)
(* (-1)^sign * man * 2^exp, man a 53-bit natural (or <<>> with exp 0 for   *)
(* the zeros +0 and -0).  The values of the program stay far inside the    *)
(* normal range, so subnormals do not occur, and no division is by zero:   *)
(* no scale is zero and every configuration considered has distanceUnit    *)
(* >= 0.001.                                                               *)
(***************************************************************************)
MantBits == 53

FZero(sign) == [sign |-> sign, man |-> <<>>, exp |-> 0]

FIsZero(x) == x.man = <<>>

\* q * 2^e for a q of at most 54 bits that has been rounded already
FRoundCarry(sign, q, e) ==
    IF BBitLen(q) > MantBits
    THEN [sign |-> sign, man |-> BShr(q, 1), exp |-> e + 1]
    ELSE [sign |-> sign, man |-> q, exp |-> e]

\* q rounded up when the part cut off is more than half a unit (c > 0), or
\* is half a unit (c = 0) and q is odd
FRoundUp(sign, q, e, c) ==
    FRoundCarry(sign,
                IF c > 0 \/ (c = 0 /\ BIsOdd(q)) THEN BAdd(q, <<1>>) ELSE q, e)

\* n = q * 2^sh + the part cut off, which is compared with half of 2^sh
FRoundCut(sign, n, e, sh, q) ==
    FRoundUp(sign, q, e + sh, BCmp(BSub(n, BShl(q, sh)), BShl(<<1>>, sh - 1)))

FRoundLen(sign, n, e, len) ==
    IF len <= MantBits
    THEN [sign |-> sign, man |-> BShl(n, MantBits - len),
          exp |-> e - (MantBits - len)]
    ELSE FRoundCut(sign, n, e, len - MantBits, BShr(n, len - MantBits))

\* n * 2^e rounded to the nearest Number, ties to even
FRound(sign, n, e) ==
    IF n = <<>> THEN FZero(sign) ELSE FRoundLen(sign, n, e, BBitLen(n))

\* the Number of an integer literal or integer API value
FFromInt(n) == FRound(IF n < 0 THEN 1 ELSE 0, BFromInt(Abs(n)), 0)

FNeg(x) == [sign |-> 1 - x.sign, man |-> x.man, exp |-> x.exp]

\* x * y
FMul(x, y) ==
    IF FIsZero(x) \/ FIsZero(y) THEN FZero((x.sign + y.sign) % 2)
    ELSE FRound((x.sign + y.sign) % 2, BMul(x.man, y.man), x.exp + y.exp)

GuardBits == 56

NaN == "NaN"

FInfinity(sign) == [sign |-> sign, man |-> "Infinity", exp |-> 0]

\* the quotient with its last bit set when the division left a remainder,
\* so that the rounding sees the part cut off
FDivSticky(sign, qr, e) ==
    FRound(sign,
           IF qr[2] = <<>> \/ BIsOdd(qr[1]) THEN qr[1] ELSE BAdd(qr[1], <<1>>),
           e)

\* x / y
FDiv(x, y) ==
    IF FIsZero(y)
    THEN (IF FIsZero(x) THEN NaN ELSE FInfinity((x.sign + y.sign) % 2))
    ELSE IF FIsZero(x) THEN FZero((x.sign + y.sign) % 2)
    ELSE FDivSticky((x.sign + y.sign) % 2,
                    BDivMod(BShl(x.man, GuardBits), y.man),
                    x.exp - y.exp - GuardBits)

\* a * 2^e and b * 2^e with signs xs and ys added; c compares a with b
FAddSigned(xs, ys, a, b, e, c) ==
    IF xs # ys /\ c = 0 THEN FZero(0)
    ELSE FRound(IF xs = ys \/ c > 0 THEN xs ELSE ys,
                IF xs = ys THEN BAdd(a, b)
                ELSE IF c > 0 THEN BSub(a, b) ELSE BSub(b, a),
                e)

FAddCompare(xs, ys, a, b, e) == FAddSigned(xs, ys, a, b, e, BCmp(a, b))

FAddAligned(x, y, e) ==
    FAddCompare(x.sign, y.sign, BShl(x.man, x.exp - e), BShl(y.man, y.exp - e), e)

\* x + y
FAdd(x, y) ==
    IF FIsZero(x) /\ FIsZero(y)
    THEN FZero(IF x.sign = 1 /\ y.sign = 1 THEN 1 ELSE 0)
    ELSE IF FIsZero(x) THEN y
    ELSE IF FIsZero(y) THEN x
    ELSE FAddAligned(x, y, Min(x.exp, y.exp))

\* x - y
FSub(x, y) == FAdd(x, FNeg(y))

\* x == y of the language (+0 and -0 are equal)
FEq(x, y) == (FIsZero(x) /\ FIsZero(y)) \/ x = y

FIsNegative(x) == ~FIsZero(x) /\ x.sign = 1

\* x < y
FLess(x, y) == FIsNegative(FSub(x, y))

FTruncOf(x, q) == [int |-> q, exact |-> BShl(q, -x.exp) = x.man]

\* the integer part and whether anything was cut off, of |x|
FTrunc(x) ==
    IF x.exp >= 0 THEN [int |-> BShl(x.man, x.exp), exact |-> TRUE]
    ELSE FTruncOf(x, BShr(x.man, -x.exp))

MathFloorOf(x, t) ==
    IF x.sign = 0 \/ t.exact THEN FRound(x.sign, t.int, 0)
    ELSE FRound(1, BAdd(t.int, <<1>>), 0)

MathFloor(x) == MathFloorOf(x, FTrunc(x))

MathCeilOf(x, t) ==
    IF x.sign = 1 \/ t.exact THEN FRound(x.sign, t.int, 0)
    ELSE FRound(0, BAdd(t.int, <<1>>), 0)

MathCeil(x) == MathCeilOf(x, FTrunc(x))

(***************************************************************************)
(* Strings are sequences of one-character strings.                         *)
(***************************************************************************)
DigitChar == <<"0", "1", "2", "3", "4", "5", "6", "7", "8", "9">>

RECURSIVE DigitsOf(_)
DigitsOf(n) ==
    IF n < 10 THEN <<DigitChar[n + 1]>>
    ELSE DigitsOf(n \div 10) \o <<DigitChar[(n % 10) + 1]>>

RECURSIVE PadDigits(_, _)
PadDigits(n, width) ==
    IF width = 0 THEN <<>>
    ELSE PadDigits(n \div 10, width - 1) \o <<DigitChar[(n % 10) + 1]>>

\* n written with f fraction digits, after a minus sign if negative
FixedDigits(negative, n, f) ==
    (IF negative THEN <<"-">> ELSE <<>>)
        \o DigitsOf(n \div (10 ^ f))
        \o (IF f = 0 THEN <<>> ELSE <<".">> \o PadDigits(n % (10 ^ f), f))

\* floor(big * 2^e + 1/2)
RoundHalfUp(big, e) ==
    IF e >= 0 THEN BShl(big, e)
    ELSE BShr(BAdd(big, BShl(<<1>>, -e - 1)), -e)

\* Number.prototype.toFixed(f): the integer n with n / 10^f nearest to |x|,
\* the larger n on a tie, written with f fraction digits
ToFixed(x, f) ==
    FixedDigits(FIsNegative(x),
                BToInt(RoundHalfUp(BMul(x.man, BFromInt(10 ^ f)), x.exp)), f)

(***************************************************************************)
(* A decimal numeral of the configuration document or of a literal:        *)
(* digits / 10^places.  parseFloat gives the Number nearest to it.         *)
(***************************************************************************)
Numeral(digits, places) == [digits |-> digits, places |-> places]

ParseFloat(t) == FDiv(FFromInt(t.digits), FFromInt(10 ^ t.places))

(***************************************************************************)
(* Decimal (lines 736-779)                                                 *)
(***************************************************************************)
Decimal(amount, decimalPlaces) ==
    [amount |-> amount, decimalPlaces |-> decimalPlaces]

\* for(var i = 0; i < this.decimalPlaces; i++) scale *= 10
RECURSIVE ScaleLoop(_, _, _)
ScaleLoop(i, decimalPlaces, scale) ==
    IF i < decimalPlaces
    THEN ScaleLoop(i + 1, decimalPlaces, FMul(scale, FFromInt(10)))
    ELSE scale

\* return Math.floor(this.amount * scale) / scale
FloorAtScale(amount, scale) == FDiv(MathFloor(FMul(amount, scale)), scale)

\* Decimal.prototype.valueOf
valueOf(this) ==
    FloorAtScale(this.amount, ScaleLoop(0, this.decimalPlaces, FFromInt(1)))

\* unitPrefix + this.amount.toFixed(2): the amount is not read through valueOf
toCurrencyOfAmount(this, unitPrefix) == unitPrefix \o ToFixed(this.amount, 2)

\* unitPrefix + Number(this).toFixed(2)
toCurrency(this, unitPrefix) == unitPrefix \o ToFixed(valueOf(this), 2)

\* Number(this).toFixed(3) + unitSuffix
toDistance(this, unitSuffix) == ToFixed(valueOf(this), 3) \o unitSuffix

(***************************************************************************)
(* Bounds and input sets                                                   *)
(***************************************************************************)
\* clicks of the "show fare" button in one behaviour
MaxClicks == 2

\* The texts of the origin and the destination field at a click.  The
\* program never compares two texts, so one fresh pair of texts for each
\* click covers the behaviours in which a text is used again.
OriginText(click) == <<"origin", click>>

DestinationText(click) == <<"destination", click>>

\* configuration documents xml/strings.xml: the example configuration of the
\* specification, the Toronto rate (0.25 per 0.143 km), and one whose
\* amounts are not binary fractions
ExampleDocument ==
    [fare_base_rate |-> Numeral(425, 2), fare_distance_unit |-> Numeral(5, 1),
     fare_rate_per_distance_unit |-> Numeral(175, 2)]

XmlDocuments ==
    { ExampleDocument,
      [fare_base_rate |-> Numeral(425, 2), fare_distance_unit |-> Numeral(143, 3),
       fare_rate_per_distance_unit |-> Numeral(25, 2)],
      [fare_base_rate |-> Numeral(115, 2), fare_distance_unit |-> Numeral(1, 1),
       fare_rate_per_distance_unit |-> Numeral(3, 1)] }

\* response.routes[0].legs[0].distance.value, in metres: the distances the
\* route service answers with while several requests are in flight, and the
\* distances a single request is answered with
Distances == {200, 1300}

FareDistances == {0, 50, 100, 200, 500, 573, 1001, 1300, 2288}

GeocoderStatus == {"OK", "ZERO_RESULTS"}

DirectionsStatus == {"OK", "NOT_FOUND"}

\* the amounts and the decimal places Decimal objects are made with
Amounts ==
    { Numeral(24999, 4), Numeral(-12349, 4), Numeral(3, 0), Numeral(0, 0),
      Numeral(115, 2), Numeral(435, 2), Numeral(-11, 1), Numeral(-249, 2),
      Numeral(125, 1), Numeral(425, 2), Numeral(143, 3), Numeral(7999, 3),
      Numeral(-1, 3), Numeral(1001, 3) }

DecimalPlaces == {0, 2, 3}

\* jQuery(xml).find('#invalid_input_error_message').text()
errorMessage == "invalid_input_error_message"

errorClass == "error"

undefined == "undefined"

(***************************************************************************)
(* TaxiFareFinder.initialize (lines 123-136): the fare array               *)
(***************************************************************************)
Fare(document) ==
    [baseRate |-> Decimal(ParseFloat(document.fare_base_rate), 2),
     distanceUnit |-> Decimal(ParseFloat(document.fare_distance_unit), 3),
     ratePerDistanceUnit |->
         Decimal(ParseFloat(document.fare_rate_per_distance_unit), 2)]

(***************************************************************************)
(* FareCalculator: the body of the route callback for status OK            *)
(* (lines 700-721), for the fare array f and response.routes[0].legs[0]    *)
(* .distance.value = meters.  The variables it assigns are read only after *)
(* they have been assigned, so its results depend on f and meters alone.   *)
(* Each assignment hands the values assigned so far on to the next.        *)
(***************************************************************************)
\* Math.max(0, n)
MathMaxZero(n) == IF FIsNegative(n) THEN FZero(0) ELSE n

\* Math.max(0, Math.ceil(distanceOverBase / fare.distanceUnit))
TierCountClamped(f, dob) ==
    MathMaxZero(MathCeil(FDiv(valueOf(dob), valueOf(f.distanceUnit))))

\* Math.abs(n)
MathAbs(n) == [n EXCEPT !.sign = 0]

\* Math.abs(Math.ceil(distanceOverBase / fare.distanceUnit))
TierCountAbs(f, dob) ==
    MathAbs(MathCeil(FDiv(valueOf(dob), valueOf(f.distanceUnit))))

\* Math.ceil(distanceOverBase / fare.distanceUnit), line 712
TierCount(f, dob) ==
    MathCeil(FDiv(valueOf(dob), valueOf(f.distanceUnit)))

\* fareOutput.showFare(totalFare.toCurrency('$'),
\*                     totalDistance.toDistance(' km')), lines 718-721
Calculated(td, dob, df, tf) ==
    [totalDistance |-> td, distanceOverBase |-> dob,
     distanceFare |-> df, totalFare |-> tf,
     fareText |-> toCurrency(tf, <<"$">>),
     distanceText |-> toDistance(td, <<" ", "k", "m">>)]

\* totalFare = new Decimal(fare.baseRate + distanceFare, 2), line 716
CalculateTotalFare(f, td, dob, df) ==
    Calculated(td, dob, df, Decimal(FAdd(valueOf(f.baseRate), valueOf(df)), 2))

\* distanceFare = new Decimal(fare.ratePerDistanceUnit * Math.ceil(...), 2),
\* lines 710-714
CalculateDistanceFare(f, td, dob) ==
    CalculateTotalFare(f, td, dob,
        Decimal(FMul(valueOf(f.ratePerDistanceUnit), TierCount(f, dob)), 2))

\* distanceOverBase = new Decimal(totalDistance - fare.distanceUnit, 3),
\* lines 705-708
CalculateDistanceOverBase(f, td) ==
    CalculateDistanceFare(f, td,
        Decimal(FSub(valueOf(td), valueOf(f.distanceUnit)), 3))

\* totalDistance = new Decimal(distance.value / 1000, 3), lines 700-703
Calculate(f, meters) ==
    CalculateDistanceOverBase(f,
        Decimal(FDiv(FFromInt(meters), FFromInt(1000)), 3))

(***************************************************************************)
(* State                                                                   *)
(***************************************************************************)
VARIABLES
    xml,                 \* the configuration document loaded at start-up
    fare,                \* FareCalculator: fare array (three Decimals)
    calculation,         \* Calculate(fare, m) for each distance m, tabulated
    addresses,           \* MapDisplay: addresses array (index i is [i + 1])
    codedAddresses,      \* MapDisplay: codedAddresses array
    map,                 \* the map shown in the map output element
    geocodeRequests,     \* geocoder.geocode calls awaiting their callback
    mapRouteRequests,    \* showMap's directionsService.route calls awaiting
    fareRouteRequests,   \* FareCalculator's directionsService.route calls
    totalDistance,       \* FareCalculator: Decimal or undefined
    distanceOverBase,    \* FareCalculator: Decimal or undefined
    distanceFare,        \* FareCalculator: Decimal or undefined
    totalFare,           \* FareCalculator: Decimal or undefined
    outputTotalFare,     \* OutputField: totalFare (a string)
    outputTotalDistance, \* OutputField: totalDistance (a string)
    message,             \* OutputField: message
    messageClass,        \* OutputField: messageClass
    element,             \* OutputField: content and classes of the element
    clicks,              \* history: number of clicks so far
    outcome,             \* history: per click, the responses and display calls
    lastShowFare,        \* history: the click whose fare was shown last
    reading              \* a Decimal object on its own, and what it reads as

vars == <<xml, fare, calculation, addresses, codedAddresses, map,
          geocodeRequests, mapRouteRequests, fareRouteRequests, totalDistance,
          distanceOverBase, distanceFare, totalFare, outputTotalFare,
          outputTotalDistance, message, messageClass, element, clicks,
          outcome, lastShowFare, reading>>

mapVars == <<addresses, codedAddresses, map, geocodeRequests, mapRouteRequests>>

calculatorVars == <<totalDistance, distanceOverBase, distanceFare, totalFare>>

outputVars == <<outputTotalFare, outputTotalDistance, message, messageClass,
                element>>

configVars == <<xml, fare, calculation>>

historyVars == <<clicks, outcome, lastShowFare>>

pageVars == <<configVars, mapVars, fareRouteRequests, calculatorVars,
              outputVars, historyVars>>

NoOutcome ==
    [geocode0 |-> "none", geocode1 |-> "none", fareRoute |-> "none",
     meters |-> -1, showFare |-> <<>>, showMessage |-> <<>>]

\* results[0].geometry.location for an address text
Location(address) == <<"LatLng", address>>

\* the objects of the page before any click: addresses, requests, totals,
\* output field
Constructed ==
    /\ addresses = <<>>
    /\ codedAddresses = [i \in 0..1 |-> undefined]
    /\ map = [shownBy |-> 0, markers |-> <<>>, directions |-> FALSE]
    /\ geocodeRequests = {}
    /\ fareRouteRequests = {}
    /\ totalDistance = undefined
    /\ distanceOverBase = undefined
    /\ distanceFare = undefined
    /\ totalFare = undefined
    /\ outputTotalFare = undefined
    /\ outputTotalDistance = undefined
    /\ message = undefined
    /\ messageClass = undefined
    /\ element = [html |-> <<>>, classes |-> {}]
    /\ clicks = 0
    /\ outcome = [c \in 1..MaxClicks |-> NoOutcome]
    /\ lastShowFare = 0

\* the state once TaxiFareFinder.initialize has run with one of the
\* documents: the constructor of MapDisplay has shown the default map
\* (lines 321-332), and showMap has asked for a route between the texts of
\* the two fields (lines 377-391).  The results of the callback are
\* tabulated for the distances the route service answers with.
Initialize(documents, distances) ==
    /\ xml \in documents
    /\ fare = Fare(xml)
    /\ calculation = [m \in distances |-> Calculate(fare, m)]
    /\ Constructed
    /\ mapRouteRequests = {[click |-> 0]}
    /\ reading = undefined

Init == Initialize({ExampleDocument}, Distances)

(***************************************************************************)
(* OutputField (lines 532-630)                                             *)
(***************************************************************************)
\* element.html(message); element.addClass(messageClass)
makeMessage ==
    element' = [html |-> <<message'>>,
                classes |-> element.classes \cup {messageClass'}]

\* two <p> elements replace the content; the error class is removed
makeFareMessage ==
    element' = [html |-> <<outputTotalFare', outputTotalDistance'>>,
                classes |-> element.classes \ {"error"}]

\* showOutputField(action): element.fadeOut(action); element.fadeIn().  The
\* effects queue of the element runs the actions in the order of the calls,
\* each with the values stored by then; the element is modelled with the
\* content it has once the animation of the call has run.
showOutputField(action) ==
    IF action = "makeMessage" THEN makeMessage ELSE makeFareMessage

\* fareOutput.showFare(newTotalFare, newTotalDistance)
showFare(newTotalFare, newTotalDistance) ==
    /\ outputTotalFare' = newTotalFare
    /\ outputTotalDistance' = newTotalDistance
    /\ showOutputField("makeFareMessage")
    /\ UNCHANGED <<message, messageClass>>

\* fareOutput.showMessage(newMessage, newMessageClass)
showMessage(newMessage, newMessageClass) ==
    /\ message' = newMessage
    /\ messageClass' = newMessageClass
    /\ showOutputField("makeMessage")
    /\ UNCHANGED <<outputTotalFare, outputTotalDistance>>

(***************************************************************************)
(* A click of the "show fare" button runs the two handlers bound to it:    *)
(* MapDisplay.updateContent (lines 398-403), which starts coding the       *)
(* addresses at index 0, and FareCalculator.updateContent (lines 688-698), *)
(* which sends its route request.  A route request is recorded by the      *)
(* click it stems from: the service answers any request with any status    *)
(* and distance, whatever the texts it carries.                            *)
(***************************************************************************)
ClickCancelling ==
    /\ clicks < MaxClicks
    /\ clicks' = clicks + 1
    /\ addresses' = <<OriginText(clicks'), DestinationText(clicks')>>
    /\ geocodeRequests' = geocodeRequests \cup
           {[click |-> clicks', index |-> 0, address |-> addresses'[1]]}
    /\ fareRouteRequests' = {[click |-> clicks']}
    /\ outcome' = [c \in 1..MaxClicks |->
                      IF c = clicks'
                      THEN [outcome[c] EXCEPT !.geocode0 = "pending",
                                              !.fareRoute = "pending"]
                      ELSE IF outcome[c].fareRoute = "pending"
                           THEN [outcome[c] EXCEPT !.fareRoute = "failed"]
                           ELSE outcome[c]]
    /\ UNCHANGED <<configVars, codedAddresses, map, mapRouteRequests,
                   calculatorVars, outputVars, lastShowFare, reading>>

\* the click handler of MapDisplay with both addresses sent to the geocoder
\* at once
ClickGeocodingBoth ==
    /\ clicks < MaxClicks
    /\ clicks' = clicks + 1
    /\ addresses' = <<OriginText(clicks'), DestinationText(clicks')>>
    /\ geocodeRequests' = geocodeRequests \cup
           {[click |-> clicks', index |-> i, address |-> addresses'[i + 1]] :
                i \in 0..1}
    /\ fareRouteRequests' = fareRouteRequests \cup {[click |-> clicks']}
    /\ outcome' = [outcome EXCEPT ![clicks'].geocode0 = "pending",
                                  ![clicks'].geocode1 = "pending",
                                  ![clicks'].fareRoute = "pending"]
    /\ UNCHANGED <<configVars, codedAddresses, map, mapRouteRequests,
                   calculatorVars, outputVars, lastShowFare, reading>>

Click ==
    /\ clicks < MaxClicks
    /\ clicks' = clicks + 1
    /\ addresses' = <<OriginText(clicks'), DestinationText(clicks')>>
    /\ geocodeRequests' = geocodeRequests \cup
           {[click |-> clicks', index |-> 0, address |-> addresses'[1]]}
    /\ fareRouteRequests' = fareRouteRequests \cup {[click |-> clicks']}
    /\ outcome' = [outcome EXCEPT ![clicks'].geocode0 = "pending",
                                  ![clicks'].fareRoute = "pending"]
    /\ UNCHANGED <<configVars, codedAddresses, map, mapRouteRequests,
                   calculatorVars, outputVars, lastShowFare, reading>>

(***************************************************************************)
(* MapDisplay.codeAddresses: the geocoder callback (lines 423-431) and the *)
(* call of codeAddresses(addresses, index + 1, ...) it makes.              *)
(***************************************************************************)
GeocodeField(index) == IF index = 0 THEN "geocode0" ELSE "geocode1"

GeocodeCallback(req, status) ==
    /\ req \in geocodeRequests
    /\ IF status = "OK"
       THEN /\ codedAddresses' =
                   [codedAddresses EXCEPT ![req.index] = Location(req.address)]
            /\ IF req.index + 1 < Len(addresses)
               THEN \* geocode the next address of the shared array
                    /\ geocodeRequests' = (geocodeRequests \ {req}) \cup
                           {[click |-> req.click, index |-> req.index + 1,
                             address |-> addresses[req.index + 2]]}
                    /\ outcome' = [outcome EXCEPT
                           ![req.click][GeocodeField(req.index)] = "OK",
                           ![req.click][GeocodeField(req.index + 1)] = "pending"]
                    /\ UNCHANGED <<map, mapRouteRequests>>
               ELSE \* showMap with the two markers, and its route request
                    /\ geocodeRequests' = geocodeRequests \ {req}
                    /\ map' = [shownBy |-> req.click,
                               markers |-> <<codedAddresses'[0], codedAddresses'[1]>>,
                               directions |-> FALSE]
                    /\ mapRouteRequests' = mapRouteRequests \cup
                           {[click |-> req.click]}
                    /\ outcome' = [outcome EXCEPT
                           ![req.click][GeocodeField(req.index)] = "OK"]
            /\ UNCHANGED outputVars
       ELSE /\ showMessage(errorMessage, errorClass)
            /\ geocodeRequests' = geocodeRequests \ {req}
            /\ outcome' = [outcome EXCEPT
                   ![req.click][GeocodeField(req.index)] = "failed",
                   ![req.click].showMessage =
                       Append(@, <<errorMessage, errorClass>>)]
            /\ UNCHANGED <<codedAddresses, map, mapRouteRequests>>
    /\ UNCHANGED <<configVars, addresses, fareRouteRequests, calculatorVars,
                   clicks, lastShowFare, reading>>

(***************************************************************************)
(* MapDisplay.showMap: the route callback (lines 386-390).  The directions *)
(* are drawn on the map object of that showMap call, which is on screen    *)
(* only while no later showMap has replaced it.                            *)
(***************************************************************************)
MapRouteCallback(req, status) ==
    /\ req \in mapRouteRequests
    /\ mapRouteRequests' = mapRouteRequests \ {req}
    /\ map' = IF status = "OK" /\ map.shownBy = req.click
              THEN [map EXCEPT !.directions = TRUE] ELSE map
    /\ UNCHANGED <<configVars, addresses, codedAddresses, geocodeRequests,
                   fareRouteRequests, calculatorVars, outputVars, historyVars,
                   reading>>

(***************************************************************************)
(* FareCalculator.updateContent: the route callback (lines 698-723).       *)
(***************************************************************************)
\* the callback without the test of the status: the fare is computed and
\* shown for any response
FareRouteCallbackAnyStatus(req, status, meters) ==
    /\ req \in fareRouteRequests
    /\ fareRouteRequests' = fareRouteRequests \ {req}
    /\ LET c == calculation[meters]
       IN  /\ totalDistance' = c.totalDistance
           /\ distanceOverBase' = c.distanceOverBase
           /\ distanceFare' = c.distanceFare
           /\ totalFare' = c.totalFare
           /\ showFare(c.fareText, c.distanceText)
           /\ outcome' = [outcome EXCEPT
                  ![req.click].fareRoute = IF status = "OK" THEN "OK" ELSE "failed",
                  ![req.click].meters = meters,
                  ![req.click].showFare =
                      Append(@, <<c.fareText, c.distanceText>>)]
           /\ lastShowFare' = req.click
    /\ UNCHANGED <<configVars, mapVars, clicks, reading>>

\* the callback with totalDistance += distance.value / 1000: the distance
\* of the response is added to the one the calculator holds
FareRouteCallbackAdding(req, status, meters) ==
    /\ req \in fareRouteRequests
    /\ fareRouteRequests' = fareRouteRequests \ {req}
    /\ IF status = "OK"
       THEN LET c == Calculate(fare,
                         meters + (IF lastShowFare = 0 THEN 0
                                   ELSE outcome[lastShowFare].meters))
            IN  /\ totalDistance' = c.totalDistance
                /\ distanceOverBase' = c.distanceOverBase
                /\ distanceFare' = c.distanceFare
                /\ totalFare' = c.totalFare
                /\ showFare(c.fareText, c.distanceText)
                /\ outcome' = [outcome EXCEPT
                       ![req.click].fareRoute = "OK",
                       ![req.click].meters = meters,
                       ![req.click].showFare =
                           Append(@, <<c.fareText, c.distanceText>>)]
                /\ lastShowFare' = req.click
       ELSE /\ outcome' = [outcome EXCEPT ![req.click].fareRoute = "failed"]
            /\ UNCHANGED <<calculatorVars, outputVars, lastShowFare>>
    /\ UNCHANGED <<configVars, mapVars, clicks, reading>>

FareRouteCallback(req, status, meters) ==
    /\ req \in fareRouteRequests
    /\ fareRouteRequests' = fareRouteRequests \ {req}
    /\ IF status = "OK"
       THEN LET c == calculation[meters]
            IN  /\ totalDistance' = c.totalDistance
                /\ distanceOverBase' = c.distanceOverBase
                /\ distanceFare' = c.distanceFare
                /\ totalFare' = c.totalFare
                /\ showFare(c.fareText, c.distanceText)
                /\ outcome' = [outcome EXCEPT
                       ![req.click].fareRoute = "OK",
                       ![req.click].meters = meters,
                       ![req.click].showFare =
                           Append(@, <<c.fareText, c.distanceText>>)]
                /\ lastShowFare' = req.click
       ELSE /\ outcome' = [outcome EXCEPT ![req.click].fareRoute = "failed"]
            /\ UNCHANGED <<calculatorVars, outputVars, lastShowFare>>
    /\ UNCHANGED <<configVars, mapVars, clicks, reading>>

Next ==
    \/ Click
    \/ \E req \in geocodeRequests, status \in GeocoderStatus :
           GeocodeCallback(req, status)
    \/ \E req \in mapRouteRequests, status \in DirectionsStatus :
           MapRouteCallback(req, status)
    \/ \E req \in fareRouteRequests, status \in DirectionsStatus,
          meters \in Distances : FareRouteCallback(req, status, meters)

Spec == Init /\ [][Next]_vars

(***************************************************************************)
(* One fare request from start-up, under each configuration document and   *)
(* with each distance the route service can answer.                        *)
(***************************************************************************)
InitFare == Initialize(XmlDocuments, FareDistances)

FirstClick == clicks = 0 /\ Click

NextFare ==
    \/ FirstClick
    \/ \E req \in geocodeRequests, status \in GeocoderStatus :
           GeocodeCallback(req, status)
    \/ \E req \in mapRouteRequests, status \in DirectionsStatus :
           MapRouteCallback(req, status)
    \/ \E req \in fareRouteRequests, status \in DirectionsStatus,
          meters \in FareDistances : FareRouteCallback(req, status, meters)

SpecFare == InitFare /\ [][NextFare]_vars

(***************************************************************************)
(* Decimal objects on their own: new Decimal(amount, decimalPlaces) for    *)
(* each amount and number of places, then read (valueOf) and formatted     *)
(* (toCurrency).                                                           *)
(***************************************************************************)
InitDecimal ==
    /\ xml = undefined
    /\ fare = undefined
    /\ calculation = <<>>
    /\ Constructed
    /\ mapRouteRequests = {}
    /\ reading \in
           { [amount |-> a, decimal |-> Decimal(ParseFloat(a), p), calls |-> {},
              value |-> undefined, again |-> undefined, currency |-> undefined] :
                 a \in Amounts, p \in DecimalPlaces }

\* Number(decimal)
ReadDecimal ==
    /\ "valueOf" \notin reading.calls
    /\ reading' = [reading EXCEPT !.value = valueOf(reading.decimal),
                                  !.calls = @ \cup {"valueOf"}]
    /\ UNCHANGED pageVars

\* Number(new Decimal(Number(decimal), decimal.decimalPlaces)): the value
\* read is stored in a Decimal of the same places and read again, as in
\* new Decimal(fare.baseRate + distanceFare, 2) with a distanceFare of 0
ReadAgain ==
    /\ "valueOf" \in reading.calls
    /\ "again" \notin reading.calls
    /\ reading' = [reading EXCEPT
           !.again = valueOf(Decimal(reading.value, reading.decimal.decimalPlaces)),
           !.calls = @ \cup {"again"}]
    /\ UNCHANGED pageVars

\* decimal.toCurrency('$')
FormatDecimal ==
    /\ "toCurrency" \notin reading.calls
    /\ reading' = [reading EXCEPT
           !.currency = toCurrency(reading.decimal, <<"$">>),
           !.calls = @ \cup {"toCurrency"}]
    /\ UNCHANGED pageVars

NextDecimal == ReadDecimal \/ ReadAgain \/ FormatDecimal

SpecDecimal == InitDecimal /\ [][NextDecimal]_vars

(***************************************************************************)
(* Decimal numerals computed exactly, with integers: what the truncations  *)
(* and the fare formula give when no rounding of Numbers intervenes.       *)
(***************************************************************************)
\* floor(t * 10^places), for a numeral t: t cut to `places` decimal places,
\* counted in units of 10^-places
Truncated(t, places) == (t.digits * 10 ^ places) \div (10 ^ t.places)

\* ceil(a / b) for b > 0
CeilDiv(a, b) == -((-a) \div b)

\* the Number nearest to n / 10^places
NumberOf(n, places) == ParseFloat(Numeral(n, places))

\* distanceUnit in metres
UnitMeters(document) == Truncated(document.fare_distance_unit, 3)

\* ceil(truncate(totalDistance - distanceUnit, 3) / distanceUnit)
ExactTierCount(document, meters) ==
    CeilDiv(meters - UnitMeters(document), UnitMeters(document))

\* truncate(baseRate + truncate(ratePerDistanceUnit * tierCount, 2), 2), in
\* cents
ExactTotalFare(document, meters) ==
    Truncated(document.fare_base_rate, 2)
        + Truncated(document.fare_rate_per_distance_unit, 2)
              * ExactTierCount(document, meters)

\* the click whose route response the calculator has computed a fare for
FareShown(c) == c \in 1..MaxClicks /\ lastShowFare = c

(***************************************************************************)
(* C1: for every distance in metres and every configuration, the OK        *)
(* callback leaves totalDistance reading truncate(meters / 1000, 3) and    *)
(* totalFare reading truncate(baseRate + truncate(ratePerDistanceUnit *    *)
(* ceil(truncate(totalDistance - distanceUnit, 3) / distanceUnit), 2), 2). *)
(* The code does not: with baseRate 4.25, distanceUnit 0.5 and             *)
(* ratePerDistanceUnit 1.75 a distance of 1001 m reads 1.000 km and 6.00.  *)
(***************************************************************************)
C1_FareFormula ==
    FareShown(1) =>
        /\ FEq(valueOf(totalDistance), NumberOf(outcome[1].meters, 3))
        /\ FEq(valueOf(totalFare),
               NumberOf(ExactTotalFare(xml, outcome[1].meters), 2))

(***************************************************************************)
(* C2: a click one of whose requests failed (the geocoding of the origin   *)
(* or of the destination, or the route request of the calculator) has the  *)
(* error message shown once, with the error class, and no fare shown.  The *)
(* code does not: the route callback of the calculator shows nothing on a  *)
(* status other than OK, and a fare is shown beside a geocoding failure.   *)
(***************************************************************************)
Settled(c) ==
    /\ c <= clicks
    /\ outcome[c].geocode0 # "pending"
    /\ outcome[c].geocode1 # "pending"
    /\ outcome[c].fareRoute # "pending"

Failed(c) ==
    \/ outcome[c].geocode0 = "failed"
    \/ outcome[c].geocode1 = "failed"
    \/ outcome[c].fareRoute = "failed"

C2_UniformFailure ==
    \A c \in 1..MaxClicks :
        (Settled(c) /\ Failed(c)) =>
            /\ outcome[c].showMessage = << <<errorMessage, errorClass>> >>
            /\ outcome[c].showFare = <<>>

(***************************************************************************)
(* C3: a route response with status OK delivered to the calculator calls   *)
(* showFare exactly once, with the values the output field then holds; a   *)
(* response with another status calls it not at all and leaves             *)
(* totalDistance, distanceOverBase, distanceFare and totalFare as they     *)
(* were.  So each click has one showFare call if its response was OK and   *)
(* none otherwise.                                                         *)
(***************************************************************************)
Delivered(c, status) ==
    outcome[c].fareRoute = "pending" /\ outcome'[c].fareRoute = status

C3_ShowFareOncePerOK ==
    /\ [][\A c \in 1..MaxClicks :
            /\ Delivered(c, "OK") =>
                   /\ outcome'[c].showFare =
                          Append(outcome[c].showFare,
                                 <<outputTotalFare', outputTotalDistance'>>)
                   /\ Len(outcome'[c].showFare) = 1
            /\ Delivered(c, "failed") =>
                   /\ outcome'[c].showFare = outcome[c].showFare
                   /\ UNCHANGED outputVars
                   /\ UNCHANGED calculatorVars
            /\ outcome'[c].showFare # outcome[c].showFare => Delivered(c, "OK")]_vars
    /\ [](\A c \in 1..MaxClicks :
            Len(outcome[c].showFare) = IF outcome[c].fareRoute = "OK" THEN 1 ELSE 0)

\* an OK response has been followed by a failed one, and the totals are
\* still those of the OK response
C3_FailedAfterOK ==
    /\ outcome[1].fareRoute = "OK"
    /\ outcome[2].fareRoute = "failed"
    /\ lastShowFare = 1
    /\ totalDistance = calculation[outcome[1].meters].totalDistance
    /\ totalFare = calculation[outcome[1].meters].totalFare
    /\ Len(outcome[1].showFare) = 1
    /\ outcome[2].showFare = <<>>

(***************************************************************************)
(* C4: a Decimal made from the numeral a with decimalPlaces places reads   *)
(* as floor(a * 10^places) / 10^places: not above a, a multiple of         *)
(* 10^-places, less than 10^-places below a.  The code does not:           *)
(* Decimal(1.15, 2) reads 1.14, because 1.15 * 100 is 114.99999999999999   *)
(* as a Number.                                                            *)
(***************************************************************************)
C4_ReadIsFloor ==
    "valueOf" \in reading.calls =>
        FEq(reading.value,
            NumberOf(Truncated(reading.amount, reading.decimal.decimalPlaces),
                     reading.decimal.decimalPlaces))

(***************************************************************************)
(* C5: for a distance above zero and below distanceUnit, tierCount is 0    *)
(* and totalFare reads as baseRate does.  The tier count is 0, but the     *)
(* code does not keep the fare at the base rate: with baseRate 1.15 the    *)
(* base rate reads 1.14, and the total fare made from it reads 1.13.       *)
(***************************************************************************)
BelowBaseTier(meters) == meters < UnitMeters(xml)

C5_BaseFareBelowUnit ==
    (FareShown(1) /\ 0 < outcome[1].meters /\ BelowBaseTier(outcome[1].meters)) =>
        /\ FIsZero(TierCount(fare, distanceOverBase))
        /\ FEq(valueOf(totalFare), valueOf(fare.baseRate))

(***************************************************************************)
(* C6, as stated: for a distance below distanceUnit, tierCount is negative *)
(* and the total fare is below baseRate.  It is not for a distance above   *)
(* zero: 200 m with distanceUnit 0.5 has tierCount 0 and the fare 4.25.    *)
(***************************************************************************)
C6_NegativeBelowUnit ==
    (FareShown(1) /\ BelowBaseTier(outcome[1].meters)) =>
        /\ FIsNegative(TierCount(fare, distanceOverBase))
        /\ FLess(valueOf(totalFare), valueOf(fare.baseRate))

(***************************************************************************)
(* C6, amended: for a distance below distanceUnit, tierCount is zero or    *)
(* negative and the total fare is not above baseRate; at distance 0 the    *)
(* tierCount is negative and the total fare is below baseRate.             *)
(***************************************************************************)
C6_NotAboveBaseBelowUnit ==
    (FareShown(1) /\ BelowBaseTier(outcome[1].meters)) =>
        /\ \/ FIsZero(TierCount(fare, distanceOverBase))
           \/ FIsNegative(TierCount(fare, distanceOverBase))
        /\ ~FLess(valueOf(fare.baseRate), valueOf(totalFare))
        /\ outcome[1].meters = 0 =>
               /\ FIsNegative(TierCount(fare, distanceOverBase))
               /\ FLess(valueOf(totalFare), valueOf(fare.baseRate))

\* 200 m under the example configuration: tierCount is zero and the fare
\* shown is the base rate
C6_ZeroTierShown ==
    /\ xml = ExampleDocument
    /\ FareShown(1)
    /\ outcome[1].meters = 200
    /\ FIsZero(TierCount(fare, distanceOverBase))
    /\ outputTotalFare = <<"$", "4", ".", "2", "5">>
    /\ outputTotalDistance = <<"0", ".", "2", "0", "0", " ", "k", "m">>

(***************************************************************************)
(* C7: a click leaves the route requests of the calculator that are        *)
(* outstanding as they are; the callback of each runs when its response    *)
(* comes, and an OK response of any click, an earlier one too, replaces    *)
(* the fare in the output field.  So the fare the field holds is always    *)
(* the one of the OK response delivered last.                              *)
(***************************************************************************)
C7_LastResponseWins ==
    /\ [][/\ clicks' # clicks => fareRouteRequests \subseteq fareRouteRequests'
          /\ \A c \in 1..MaxClicks :
                 Delivered(c, "OK") =>
                     /\ [click |-> c] \in fareRouteRequests
                     /\ lastShowFare' = c
                     /\ element'.html = outcome'[c].showFare[1]]_vars
    /\ [](\A c \in 1..MaxClicks :
              /\ outcome[c].fareRoute = "pending" <=>
                     [click |-> c] \in fareRouteRequests
              /\ FareShown(c) =>
                     /\ <<outputTotalFare, outputTotalDistance>> =
                            outcome[c].showFare[1]
                     /\ Len(element.html) = 2 =>
                            element.html = outcome[c].showFare[1])

\* the response of the first click came after the one of the second, with
\* another distance, and its fare is the one on show
C7_StaleFareOnShow ==
    /\ outcome[1].fareRoute = "OK"
    /\ outcome[2].fareRoute = "OK"
    /\ outcome[1].meters # outcome[2].meters
    /\ lastShowFare = 1
    /\ element.html = outcome[1].showFare[1]
    /\ element.html # outcome[2].showFare[1]

(***************************************************************************)
(* C8: no click has two route requests outstanding at once.  The code has: *)
(* the route request of the calculator is sent at the click, and showMap   *)
(* sends its own once both addresses are coded, whether or not the first   *)
(* has been answered.                                                      *)
(***************************************************************************)
C8_OneRouteRequestPerClick ==
    \A c \in 1..MaxClicks :
        ~([click |-> c] \in fareRouteRequests /\ [click |-> c] \in mapRouteRequests)

(***************************************************************************)
(* C9: two clicks whose route responses were OK with the same distance     *)
(* had the same fare and distance texts passed to showFare, whatever       *)
(* totals the calculator held when each response came.                     *)
(***************************************************************************)
C9_SameResponseSameFare ==
    \A c \in 1..MaxClicks, d \in 1..MaxClicks :
        (/\ outcome[c].fareRoute = "OK"
         /\ outcome[d].fareRoute = "OK"
         /\ outcome[c].meters = outcome[d].meters) =>
            outcome[c].showFare = outcome[d].showFare

\* two responses with the same distance, the second computed over the
\* totals the first had left
C9_TwiceTheSameResponse ==
    /\ outcome[1].fareRoute = "OK"
    /\ outcome[2].fareRoute = "OK"
    /\ outcome[1].meters = 1300
    /\ outcome[2].meters = 1300
    /\ outcome[1].showFare = << <<outputTotalFare, outputTotalDistance>> >>
    /\ outcome[2].showFare = outcome[1].showFare

(***************************************************************************)
(* C10: toCurrency('$') is '$', a minus sign if the value read is          *)
(* negative, and the value read written with exactly two decimal places:   *)
(* the hundredths shown are the nearest to the value read (valueOf), and   *)
(* for a Decimal of 0 or 2 places the number shown is the value read.      *)
(***************************************************************************)
IsDigit(ch) == \E d \in 1..10 : DigitChar[d] = ch

DigitValue(ch) == (CHOOSE d \in 1..10 : DigitChar[d] = ch) - 1

RECURSIVE NatOfDigits(_, _)
NatOfDigits(text, n) ==
    IF n = 0 THEN 0 ELSE 10 * NatOfDigits(text, n - 1) + DigitValue(text[n])

\* the text after the first `skip` characters
Rest(text, skip) == SubSeq(text, skip + 1, Len(text))

\* digits, a point, two digits
IsTwoPlaces(u) ==
    /\ Len(u) >= 4
    /\ u[Len(u) - 2] = "."
    /\ \A i \in 1..Len(u) : i # Len(u) - 2 => IsDigit(u[i])

\* the number of hundredths a text of that form denotes
HundredthsOf(u) ==
    NatOfDigits(SubSeq(u, 1, Len(u) - 3) \o SubSeq(u, Len(u) - 1, Len(u)),
                Len(u) - 1)

\* | |x| * 200 * 2^e - k * 2 * 2^e | <= 2^e, for a and b the two products:
\* k hundredths are within half a hundredth of |x|
WithinHalf(a, b, half) ==
    IF BCmp(a, b) >= 0 THEN BCmp(BSub(a, b), half) <= 0
    ELSE BCmp(BSub(b, a), half) <= 0

NearestHundredths(x, k) ==
    WithinHalf(BShl(BMulSmall(x.man, 200), Max(0, x.exp)),
               BShl(BFromInt(2 * k), Max(0, -x.exp)),
               BShl(<<1>>, Max(0, -x.exp)))

\* the text u shows the Number x with two decimal places
ShowsTwoPlaces(u, x, exact) ==
    /\ IsTwoPlaces(u)
    /\ NearestHundredths(x, HundredthsOf(u))
    /\ exact => FEq(NumberOf(HundredthsOf(u), 2),
                    [x EXCEPT !.sign = 0])

ShowsCurrency(text, x, exact) ==
    /\ Len(text) >= 5
    /\ text[1] = "$"
    /\ (text[2] = "-") = FIsNegative(x)
    /\ ShowsTwoPlaces(Rest(text, IF text[2] = "-" THEN 2 ELSE 1), x, exact)

C10_CurrencyOfValue ==
    "toCurrency" \in reading.calls =>
        ShowsCurrency(reading.currency, valueOf(reading.decimal),
                      reading.decimal.decimalPlaces <= 2)

\* Decimal(3, 0).toCurrency('$') is '$3.00'
C10_ThreeDollars ==
    /\ reading.amount = Numeral(3, 0)
    /\ reading.decimal.decimalPlaces = 0
    /\ "toCurrency" \in reading.calls
    /\ reading.currency = <<"$", "3", ".", "0", "0">>

(***************************************************************************)
(* C11: within a click the addresses are coded one after the other.  The   *)
(* request for the destination is sent in the step in which the origin     *)
(* comes back OK, and not otherwise.  A geocoding that comes back with     *)
(* another status ends the chain: showMessage is called once, with the     *)
(* error message and the error class, no further request of the click is   *)
(* sent and the map is left as it is.  The map is shown anew, with two     *)
(* markers, only in the step in which the destination comes back OK after  *)
(* the origin did.                                                         *)
(***************************************************************************)
GeocodeDelivered(c, index, status) ==
    /\ outcome[c][GeocodeField(index)] = "pending"
    /\ outcome'[c][GeocodeField(index)] = status

GeocodeFailedStep(c) ==
    GeocodeDelivered(c, 0, "failed") \/ GeocodeDelivered(c, 1, "failed")

\* showMap has been called in the step: its route request is new
MapShownAnew(c) ==
    [click |-> c] \in mapRouteRequests' /\ [click |-> c] \notin mapRouteRequests

GeocodeFailures(c) ==
    (IF outcome[c].geocode0 = "failed" THEN 1 ELSE 0)
        + (IF outcome[c].geocode1 = "failed" THEN 1 ELSE 0)

\* what a step does for the click c when it answers or sends a request of
\* the geocoder
GeocoderStep(c) ==
    /\ (\E req \in geocodeRequests' \ geocodeRequests :
            req.click = c /\ req.index = 1)
           <=> GeocodeDelivered(c, 0, "OK")
    /\ GeocodeFailedStep(c) =>
           /\ outcome'[c].showMessage =
                  Append(outcome[c].showMessage, <<errorMessage, errorClass>>)
           /\ message' = errorMessage
           /\ messageClass' = errorClass
           /\ element'.html = <<errorMessage>>
           /\ errorClass \in element'.classes
           /\ geocodeRequests' \subseteq geocodeRequests
           /\ map' = map
           /\ mapRouteRequests' = mapRouteRequests
    /\ outcome'[c].showMessage # outcome[c].showMessage => GeocodeFailedStep(c)
    /\ MapShownAnew(c) <=>
           (GeocodeDelivered(c, 1, "OK") /\ outcome[c].geocode0 = "OK")
    /\ MapShownAnew(c) =>
           /\ map'.shownBy = c
           /\ Len(map'.markers) = 2

\* a step that answers no request of the geocoder and sends none: no
\* geocoding changes its status, showMessage is not called and the map is
\* not shown anew
OtherStep(c) ==
    /\ outcome'[c].geocode0 = outcome[c].geocode0
    /\ outcome'[c].geocode1 = outcome[c].geocode1
    /\ outcome'[c].showMessage = outcome[c].showMessage
    /\ ~MapShownAnew(c)

C11_GeocodesInSequence ==
    /\ [][IF geocodeRequests' = geocodeRequests
          THEN \A c \in 1..MaxClicks : OtherStep(c)
          ELSE \A c \in 1..MaxClicks : GeocoderStep(c)]_vars
    /\ [](\A c \in 1..MaxClicks :
            /\ outcome[c].geocode1 # "none" => outcome[c].geocode0 = "OK"
            /\ Len(outcome[c].showMessage) = GeocodeFailures(c)
            /\ GeocodeFailures(c) <= 1
            /\ (GeocodeFailures(c) = 1 \/ outcome[c].geocode1 # "OK") =>
                   map.shownBy # c)

\* the destination of the first click could not be coded: one message, and
\* the map of the first click never shown; the second click has its map
\* shown with two markers
C11_ChainStoppedAndChainDone ==
    /\ outcome[1].geocode0 = "OK"
    /\ outcome[1].geocode1 = "failed"
    /\ outcome[1].showMessage = << <<errorMessage, errorClass>> >>
    /\ outcome[2].geocode0 = "OK"
    /\ outcome[2].geocode1 = "OK"
    /\ outcome[2].showMessage = <<>>
    /\ map.shownBy = 2
    /\ Len(map.markers) = 2

(***************************************************************************)
(* C12: once every request of a click has been answered and its route      *)
(* response was not OK, the output field does not show the fare and the    *)
(* distance of an earlier click.  The code has it show them: the route     *)
(* callback does nothing on a status other than OK, so what showFare put   *)
(* in the field for the earlier click stays there.                         *)
(***************************************************************************)
ShowsFareOf(d) ==
    /\ outcome[d].fareRoute = "OK"
    /\ element.html = outcome[d].showFare[1]

C12_NothingRetained ==
    \A c \in 1..MaxClicks :
        (Settled(c) /\ outcome[c].fareRoute = "failed") =>
            \A d \in 1..(c - 1) : ~ShowsFareOf(d)

(***************************************************************************)
(* C13: no click has both showFare and showMessage called for it.  The     *)
(* code has: the two handlers of the click work apart, and when the        *)
(* geocoder answers the click with a status other than OK while the route  *)
(* service answers the calculator with OK, the one calls showMessage and   *)
(* the other showFare.                                                     *)
(***************************************************************************)
C13_FareOrMessage ==
    \A c \in 1..MaxClicks :
        outcome[c].showFare = <<>> \/ outcome[c].showMessage = <<>>

(***************************************************************************)
(* C14: whenever the map is shown with markers, the two markers are the    *)
(* locations of the origin text and of the destination text read at one    *)
(* and the same click.  The code does not keep them so: addresses and      *)
(* codedAddresses are shared by all clicks, and a click that comes while   *)
(* the origin of an earlier click is being coded replaces the texts, so    *)
(* the chain of the earlier click goes on with the destination of the      *)
(* later one.                                                              *)
(***************************************************************************)
MarkersOf(c) == <<Location(OriginText(c)), Location(DestinationText(c))>>

C14_MarkersOfOneClick ==
    map.markers # <<>> => \E c \in 1..MaxClicks : map.markers = MarkersOf(c)

(***************************************************************************)
(* C15: under one configuration the total fare does not fall as the        *)
(* distance grows.  The fare computed for the response of the click is not *)
(* below the fare of any shorter distance and not above the fare of any    *)
(* longer one, among the distances the service answers with and the        *)
(* distance one metre longer.                                              *)
(***************************************************************************)
\* x <= y
FLessEq(x, y) == ~FLess(y, x)

FareOf(meters) == valueOf(calculation[meters].totalFare)

C15_FareMonotone ==
    FareShown(1) =>
        /\ \A d \in DOMAIN calculation :
               /\ d <= outcome[1].meters => FLessEq(FareOf(d), valueOf(totalFare))
               /\ d >= outcome[1].meters => FLessEq(valueOf(totalFare), FareOf(d))
        /\ FLessEq(valueOf(totalFare),
                   valueOf(Calculate(fare, outcome[1].meters + 1).totalFare))

\* 1300 m under the example configuration: the fare is above the one of
\* 200 m and below the one of 2288 m
C15_FareBetween ==
    /\ xml = ExampleDocument
    /\ FareShown(1)
    /\ outcome[1].meters = 1300
    /\ outputTotalFare = <<"$", "7", ".", "7", "5">>
    /\ FLess(FareOf(200), valueOf(totalFare))
    /\ FLess(valueOf(totalFare), FareOf(2288))

====
